---------------------------- MODULE Spec2Model ----------------------------
(***************************************************************************)
(* ServerImpl scanner / registry generator (arduinolibserver_scripts).     *)
(*                                                                         *)
(* Text is modelled as sequences of tokens: every token is a string that   *)
(* stands for the characters of the same spelling ("ServerImpl", "class",  *)
(* "(", " ", "\n", ...).  The regular expressions of the scripts are       *)
(* translated to operators over token sequences, with the leftmost/greedy  *)
(* semantics of Python's re.search.                                        *)
(***************************************************************************)
EXTENDS Integers, Sequences, FiniteSets, TLC

VARIABLES
    fs,                 \* the file system: resolved path -> [kind, content]
    last,               \* the call record of the last library function called
    pc,                 \* position of L3 main(): "loop", "generate", "update", "exit";
                        \* "lib" when the functions are called on their own
    file_paths,         \* sys.argv[2:]
    library_dir,        \* sys.argv[1]
    idx,                \* index of the next candidate of main()'s for loop
    all_registrations,  \* main(): all_registrations
    processed_count,    \* main(): processed_count
    commented_count,    \* main(): commented_count
    include_statements, \* main(): include_statements
    registration_code,  \* main(): registration_code
    exit_code,          \* sys.exit status, -1 while running
    io                  \* the files main() has opened so far, in order

vars == <<fs, last, pc, file_paths, library_dir, idx, all_registrations,
          processed_count, commented_count, include_statements,
          registration_code, exit_code, io>>

runVars == <<pc, file_paths, library_dir, idx, all_registrations, processed_count,
             commented_count, include_statements, registration_code, exit_code, io>>

(***************************************************************************)
(* Bounds of the model.                                                    *)
(***************************************************************************)
MaxLines == 7       \* lines of a scanned file
MaxMarked == 3      \* non-blank lines of a scanned file
MaxFiles == 2       \* candidate files of one run
MaxRegs == 3        \* registrations handed to the synthesizer
MaxArg == 4         \* tokens between the brackets of a marker

(***************************************************************************)
(* Generic helpers.                                                        *)
(***************************************************************************)
Min2(a, b) == IF a <= b THEN a ELSE b

MinOf(S) == CHOOSE x \in S : \A y \in S : x <= y

MaxOf(S) == CHOOSE x \in S : \A y \in S : y <= x

RECURSIVE Ascending(_)
\* the elements of a set of integers as an ascending sequence
Ascending(S) ==
    IF S = {} THEN <<>> ELSE <<MinOf(S)>> \o Ascending(S \ {MinOf(S)})

RECURSIVE Concat(_)
Concat(ss) == IF ss = <<>> THEN <<>> ELSE Head(ss) \o Concat(Tail(ss))

(***************************************************************************)
(* Character classes of the patterns.                                      *)
(***************************************************************************)
\* \s of the patterns and the characters str.strip()/lstrip() remove
IsSpace(t) == t \in {" ", "\t", "\n"}

\* \w of class_pattern: identifier characters
IsWord(t) == t \in {"ServerImpl", "class", "final", "public", "private", "IServer",
                    "IClient", "A", "B", "C", "a", "b", "c", "x", "y"}

\* the end (exclusive) of the greedy \s* that starts at position p
SkipSpace(s, p) ==
    CHOOSE q \in p..(Len(s) + 1) :
        /\ \A k \in p..(q - 1) : IsSpace(s[k])
        /\ (q = Len(s) + 1 \/ ~IsSpace(s[q]))

\* the end (exclusive) of the greedy \w* that starts at position p
SkipWord(s, p) ==
    CHOOSE q \in p..(Len(s) + 1) :
        /\ \A k \in p..(q - 1) : IsWord(s[k])
        /\ (q = Len(s) + 1 \/ ~IsWord(s[q]))

\* str.lstrip()
lstrip(s) == SubSeq(s, SkipSpace(s, 1), Len(s))

\* str.strip()
strip(s) ==
    LET a == SkipSpace(s, 1)
        keep == {k \in a..Len(s) : ~IsSpace(s[k])}
    IN  IF keep = {} THEN <<>> ELSE SubSeq(s, a, MaxOf(keep))

startswith(s, t) == Len(s) >= 1 /\ s[1] = t

endswith(s, t) == Len(s) >= 1 /\ s[Len(s)] = t

(***************************************************************************)
(* extract_bracket_content                                                 *)
(***************************************************************************)
extract_bracket_content(content) ==
    IF content = <<>> THEN <<>>
    ELSE LET c == strip(content)
         IN  IF \/ startswith(c, "\"") /\ endswith(c, "\"")
                \/ startswith(c, "'") /\ endswith(c, "'")
             THEN SubSeq(c, 2, Len(c) - 1)
             ELSE c

\* ------------------------------------------------------------------------
\* server_impl_pattern:  (\s*)(ServerImpl\s*\(([^)]*)\))
\* ------------------------------------------------------------------------
\* ServerImpl\s*\(([^)]*)\) matches with its first character at position q
MacroAt(s, q) ==
    /\ q <= Len(s)
    /\ s[q] = "ServerImpl"
    /\ LET r == SkipSpace(s, q + 1)
       IN  /\ r <= Len(s)
           /\ s[r] = "("
           /\ \E c \in (r + 1)..Len(s) : s[c] = ")"

NoMatch == [found |-> FALSE, start |-> 0, indent |-> <<>>, macro |-> <<>>,
            content |-> <<>>, stop |-> 0]

\* server_impl_pattern.search(line): the leftmost match and its groups
server_impl_search(s) ==
    LET qs == {q \in 1..Len(s) : MacroAt(s, q)}
    IN  IF qs = {} THEN NoMatch
        ELSE LET q == MinOf(qs)
                 p == MinOf({p0 \in 1..q : \A k \in p0..(q - 1) : IsSpace(s[k])})
                 r == SkipSpace(s, q + 1)
                 c == MinOf({c0 \in (r + 1)..Len(s) : s[c0] = ")"})
             IN  [found |-> TRUE, start |-> p,
                  indent |-> SubSeq(s, p, q - 1),       \* group(1)
                  macro |-> SubSeq(s, q, c),            \* group(2)
                  content |-> SubSeq(s, r + 1, c - 1),  \* group(3)
                  stop |-> c]

\* ------------------------------------------------------------------------
\* class_pattern:  class\s+(\w+)(?:\s+final)?\s*:\s*public\s+IServer
\* ------------------------------------------------------------------------
\* \s*:\s*public\s+IServer matches at position k
ClassTailAt(s, k) ==
    LET c == SkipSpace(s, k)
    IN  /\ c <= Len(s)
        /\ s[c] = ":"
        /\ LET p == SkipSpace(s, c + 1)
           IN  /\ p <= Len(s)
               /\ s[p] = "public"
               /\ LET i == SkipSpace(s, p + 1)
                  IN  /\ i > p + 1
                      /\ i <= Len(s)
                      /\ s[i] = "IServer"

\* (?:\s+final)? followed by the rest of the pattern, at position e
ClassRestAt(s, e) ==
    LET f == SkipSpace(s, e)
    IN  \/ f > e /\ f <= Len(s) /\ s[f] = "final" /\ ClassTailAt(s, f + 1)
        \/ ClassTailAt(s, e)

\* the whole pattern matches with its first character at position c
ClassAt(s, c) ==
    /\ c <= Len(s)
    /\ s[c] = "class"
    /\ LET w == SkipSpace(s, c + 1)
           e == SkipWord(s, w)
       IN  /\ w > c + 1
           /\ e > w
           /\ ClassRestAt(s, e)

\* class_pattern.search(line): found, and group(1)
class_search(s) ==
    LET cs == {c \in 1..Len(s) : ClassAt(s, c)}
    IN  IF cs = {} THEN [found |-> FALSE, name |-> <<>>]
        ELSE LET c == MinOf(cs)
                 w == SkipSpace(s, c + 1)
             IN  [found |-> TRUE, name |-> SubSeq(s, w, SkipWord(s, w) - 1)]

(***************************************************************************)
(* Files: f.readlines(), f.writelines(), Path.resolve()                    *)
(***************************************************************************)
RECURSIVE SplitLines(_, _, _)
SplitLines(s, k, cur) ==
    IF k > Len(s) THEN (IF cur = <<>> THEN <<>> ELSE <<cur>>)
    ELSE IF s[k] = "\n" THEN <<Append(cur, s[k])>> \o SplitLines(s, k + 1, <<>>)
    ELSE SplitLines(s, k + 1, Append(cur, s[k]))

\* f.readlines(): the content cut after every "\n"
readlines(content) == SplitLines(content, 1, <<>>)

\* f.writelines(lines)
writelines(lines) == Concat(lines)

RECURSIVE ResolveFrom(_, _)
ResolveFrom(acc, rest) ==
    IF rest = <<>> THEN acc
    ELSE IF Head(rest) = ".."
         THEN ResolveFrom(SubSeq(acc, 1, Len(acc) - 1), Tail(rest))
         ELSE ResolveFrom(Append(acc, Head(rest)), Tail(rest))

\* Path.resolve(): a path is the sequence of its components below the root
Resolve(path) == ResolveFrom(<<>>, path)

NoFile == [kind |-> "none", content |-> <<>>]
Directory == [kind |-> "dir", content |-> <<>>]
Unreadable == [kind |-> "denied", content |-> <<>>]
RegularFile(content) == [kind |-> "file", content |-> content]
\* a regular file that open(path, 'w') refuses (PermissionError)
ReadOnlyFile(content) == [kind |-> "readonly", content |-> content]


(***************************************************************************)
(* Paths of the model's file system.                                       *)
(***************************************************************************)
LibDir == <<"lib">>
LibDirLong == <<"lib", "src", "..">>
IncludeDir == <<"lib", "include">>
FileA == <<"lib", "include", "a.h">>
FileAAlias == <<"lib", "src", "..", "include", "a.h">>
FileB == <<"lib", "src", "b.h">>
FileC == <<"ext", "c.h">>
FileD == <<"lib", "d.h">>
FileGone == <<"lib", "gone.h">>
InitFile == <<"lib", "include", "ServerFactoryInit.h">>

FileE == <<"lib", "e.h">>
FileF == <<"lib", "src", "f.h">>
FileR == <<"lib", "r.h">>

FsPaths ==
    {IncludeDir, FileA, FileB, FileC, FileD, FileE, FileF, FileR, FileGone, InitFile}

\* the entry an open()/exists()/is_file() on the path sees
Lookup(files, path) == files[Resolve(path)]

(***************************************************************************)
(* Lines of the scanned files.                                             *)
(***************************************************************************)
Blank == <<"\n">>
MarkerLine == <<" ", "\t", "ServerImpl", " ", "(", "\"", "a", "\"", ")", ";", "\n">>
ClassLine == <<"class", " ", "A", " ", "final", ":", "public", " ", "IServer",
               " ", "{", "\n">>
MarkerAndClass == <<"ServerImpl", "(", "b", ")", " ", "class", " ", "C", " ", ":",
                    " ", "public", " ", "IServer", "\n">>

LineKinds == {MarkerLine, ClassLine, MarkerAndClass}

(***************************************************************************)
(* The three library functions over one file.  Each operator returns the   *)
(* function's result dict, the lines it read, and the content it leaves    *)
(* in the file (wrote: the file was opened for writing).                   *)
(***************************************************************************)
RangeStop == 6

\* (mutant) the window read as "up to 6 lines"
WindowOneMore(i, n) == {j \in 1..n : i + 1 <= j /\ j <= Min2(i + RangeStop, n)}

\* range(i + 1, min(i + 6, len(lines))), for 1-based line indices i of n lines
Window(i, n) == {j \in 1..n : i + 1 <= j /\ j < Min2(i + RangeStop, n + 1)}

\* (mutant) the rewritten line without its newline
CommentedLineNoNewline(m) == m.indent \o <<"//", " ">> \o m.macro

\* f"{indent}// {macro}\n"
CommentedLine(m) == m.indent \o <<"//", " ">> \o m.macro \o <<"\n">>

\* the two compiled patterns searched in one line
BothSearches(line) == [m |-> server_impl_search(line), c |-> class_search(line)]

\* The searches of the lines the model's files are made of, computed once:
\* the lines of the catalogue, with and without their newline, and what the
\* functions rewrite them to.
CachedLines ==
    LET base == LineKinds \cup {Blank}
        all == base \cup {SubSeq(l, 1, Len(l) - 1) : l \in base}
    IN  all \cup {CommentedLine(server_impl_search(l)) : l \in all}

LineCache == [l \in CachedLines |-> BothSearches(l)]

LineSearch(line) ==
    IF line \in CachedLines THEN LineCache[line] ELSE BothSearches(line)

\* server_impl_pattern.search(line) and class_pattern.search(line), per line
Searches(lines) == [i \in 1..Len(lines) |-> LineSearch(lines[i])]

\* the for-j loop: the first line of the window with a class, 0 if none
FirstClassLine(S, i) ==
    LET js == {j \in Window(i, Len(S)) : S[j].c.found}
    IN  IF js = {} THEN 0 ELSE MinOf(js)

\* the line indices for which the functions find a marker followed by a class
Hits(S) == {i \in 1..Len(S) : S[i].m.found /\ FirstClassLine(S, i) # 0}

\* (mutant) the test without the lstrip()
AlreadyCommentedNoStrip(line) == startswith(line, "//")

\* stripped.startswith('//') of line.lstrip()
AlreadyCommented(line) == startswith(lstrip(line), "//")

\* the hits the functions rewrite: those not already commented
ToComment(lines, S) == {i \in Hits(S) : ~AlreadyCommented(lines[i])}

\* modified_lines after the loop
ModifiedLines(lines, S) ==
    LET todo == ToComment(lines, S)
    IN  [i \in 1..Len(lines) |->
            IF i \in todo THEN CommentedLine(S[i].m) ELSE lines[i]]

\* (mutant) the file rewritten by every pass that is not a dry run
WriteBackAlways(modified, dry_run) == ~dry_run

\* if result['modified'] [and not dry_run]: open(file_path, 'w')
WriteBack(modified, dry_run) == modified /\ ~dry_run

\* the open(file_path, 'w') raises: the except clause sets result['error']
WriteFails(f, modified, dry_run) == WriteBack(modified, dry_run) /\ f.kind = "readonly"

NoResult == [found |-> FALSE, matches |-> <<>>, modified |-> FALSE,
             commented_lines |-> <<>>, success |-> FALSE, error |-> ""]

Failed(f, msg) ==
    [result |-> [NoResult EXCEPT !.error = msg], lines |-> <<>>,
     content |-> f.content, wrote |-> FALSE]

\* match_info of L3, for the marker on line i
MatchInfo(S, i, path) ==
    [line_number |-> i,
     class_name |-> S[FirstClassLine(S, i)].c.name,
     server_impl_content |-> extract_bracket_content(S[i].m.content),
     file_path |-> Resolve(path)]

\* L3 check_and_comment_server_impl(file_path), on the file f found at the path
check_and_comment_server_impl(f, path) ==
    IF f.kind = "none" THEN Failed(f, "File does not exist")
    ELSE IF f.kind = "dir" THEN Failed(f, "Path is not a file")
    ELSE IF f.kind = "denied" THEN Failed(f, "Error processing file")
    ELSE
    LET lines == readlines(f.content)
        S == Searches(lines)
        hits == Ascending(Hits(S))
        modified == ToComment(lines, S) # {}
    IN  [result |-> [NoResult EXCEPT
                        !.found = Len(hits) > 0,
                        !.matches = [k \in 1..Len(hits) |-> MatchInfo(S, hits[k], path)],
                        !.modified = modified,
                        !.error = IF WriteFails(f, modified, FALSE)
                                  THEN "Error processing file" ELSE ""],
         lines |-> lines,
         content |-> IF WriteBack(modified, FALSE) /\ ~WriteFails(f, modified, FALSE)
                     THEN writelines(ModifiedLines(lines, S)) ELSE f.content,
         wrote |-> WriteBack(modified, FALSE) /\ ~WriteFails(f, modified, FALSE)]

\* match_info of L1, for the marker on line i
CheckInfo(lines, S, i) ==
    [line_number |-> i,
     server_impl_line |-> strip(lines[i]),
     class_line |-> strip(lines[FirstClassLine(S, i)]),
     class_name |-> S[FirstClassLine(S, i)].c.name,
     server_impl_macro |-> S[i].m.macro,
     server_impl_content |-> extract_bracket_content(S[i].m.content)]

\* L1 check_server_impl(file_path)
check_server_impl(f, path) ==
    IF f.kind = "none" THEN Failed(f, "File does not exist")
    ELSE IF f.kind = "dir" THEN Failed(f, "Path is not a file")
    ELSE IF f.kind = "denied" THEN Failed(f, "Error processing file")
    ELSE
    LET lines == readlines(f.content)
        S == Searches(lines)
        hits == Ascending(Hits(S))
    IN  [result |-> [NoResult EXCEPT
                        !.found = Len(hits) > 0,
                        !.matches = [k \in 1..Len(hits) |-> CheckInfo(lines, S, hits[k])]],
         lines |-> lines, content |-> f.content, wrote |-> FALSE]

\* str.rstrip('\n')
rstrip_newline(s) ==
    LET keep == {k \in 1..Len(s) : s[k] # "\n"}
    IN  IF keep = {} THEN <<>> ELSE SubSeq(s, 1, MaxOf(keep))

\* L2 comment_server_impl(file_path, dry_run)
comment_server_impl(f, path, dry_run) ==
    IF f.kind = "none" THEN Failed(f, "File does not exist")
    ELSE IF f.kind = "dir" THEN Failed(f, "Path is not a file")
    ELSE IF f.kind = "denied" THEN Failed(f, "Error processing file")
    ELSE
    LET lines == readlines(f.content)
        S == Searches(lines)
        todo == Ascending(ToComment(lines, S))
        modified == Len(todo) > 0
    IN  [result |-> [NoResult EXCEPT
                        !.modified = modified,
                        !.commented_lines =
                            IF WriteFails(f, modified, dry_run) THEN <<>>
                            ELSE [k \in 1..Len(todo) |->
                                    [line_number |-> todo[k],
                                     original |-> rstrip_newline(lines[todo[k]]),
                                     commented |->
                                        rstrip_newline(CommentedLine(S[todo[k]].m))]],
                        !.error = IF WriteFails(f, modified, dry_run)
                                  THEN "Error processing file" ELSE ""],
         lines |-> lines,
         content |-> IF WriteBack(modified, dry_run) /\ ~WriteFails(f, modified, dry_run)
                     THEN writelines(ModifiedLines(lines, S)) ELSE f.content,
         wrote |-> WriteBack(modified, dry_run) /\ ~WriteFails(f, modified, dry_run)]

\* Files of MaxLines lines, at most MaxMarked of them not blank, with or
\* without the newline that ends the last line.  The first line is not blank:
\* what the functions do with line i depends on lines i..i+5 only, so blank
\* lines before the first non-blank one only shift the line numbers.
ScanContents ==
    {LET text == Concat([i \in 1..MaxLines |-> IF i \in DOMAIN f THEN f[i] ELSE Blank])
     IN  IF cut THEN SubSeq(text, 1, Len(text) - 1) ELSE text :
        cut \in BOOLEAN,
        f \in UNION {[S -> LineKinds] :
                        S \in {T \in SUBSET (1..MaxLines) :
                                  1 \in T /\ Cardinality(T) <= MaxMarked}}}

(***************************************************************************)
(* generate_include_statements, generate_registration_code                 *)
(***************************************************************************)
IsPrefix(base, path) ==
    Len(base) <= Len(path) /\ SubSeq(path, 1, Len(base)) = base

RECURSIVE Join(_, _)
\* sep.join(parts)
Join(parts, sep) ==
    IF parts = <<>> THEN <<>>
    ELSE IF Len(parts) = 1 THEN Head(parts)
    ELSE Head(parts) \o sep \o Join(Tail(parts), sep)

\* str(path) of a relative path: its components with "/" between them
PathText(parts) ==
    IF parts = <<>> THEN <<".">> ELSE Join([k \in 1..Len(parts) |-> <<parts[k]>>], <<"/">>)

\* file_path.relative_to(base), which raises ValueError unless base is a prefix
RelativeTo(path, base) == SubSeq(path, Len(base) + 1, Len(path))

\* (mutant) the library directory tried before its include directory
IncludePathLibraryFirst(file_path, lib) ==
    IF IsPrefix(lib, file_path)
    THEN <<"\"">> \o PathText(RelativeTo(file_path, lib)) \o <<"\"">>
    ELSE <<"<", "/">> \o PathText(file_path) \o <<">">>

\* include_path of one resolved file, lib the resolved library_dir
IncludePath(file_path, lib) ==
    LET include_dir == lib \o <<"include">>
    IN  IF IsPrefix(include_dir, file_path)
        THEN <<"\"">> \o PathText(RelativeTo(file_path, include_dir)) \o <<"\"">>
        ELSE IF IsPrefix(lib, file_path)
        THEN <<"\"">> \o PathText(RelativeTo(file_path, lib)) \o <<"\"">>
        ELSE <<"<", "/">> \o PathText(file_path) \o <<">">>

RECURSIVE IncludesNoSeen(_, _, _)
\* (mutant) the loop without its seen_paths test
IncludesNoSeen(regs, lib, seen) ==
    IF regs = <<>> THEN <<>>
    ELSE <<<<"#include", " ">> \o IncludePath(Resolve(Head(regs).file_path), lib)>>
         \o IncludesNoSeen(Tail(regs), lib, seen)

RECURSIVE Includes(_, _, _)
\* the for-reg loop: the list includes, with seen_paths = seen
Includes(regs, lib, seen) ==
    IF regs = <<>> THEN <<>>
    ELSE LET file_path == Resolve(Head(regs).file_path)
         IN  IF file_path \in seen THEN Includes(Tail(regs), lib, seen)
             ELSE <<<<"#include", " ">> \o IncludePath(file_path, lib)>>
                  \o Includes(Tail(regs), lib, seen \cup {file_path})

generate_include_statements(registrations, lib_dir) ==
    IF registrations = <<>> THEN <<>>
    ELSE Join(Includes(registrations, Resolve(lib_dir), {}), <<"\n">>)

Indent4 == <<" ", " ", " ", " ">>

ReturnFalse == Indent4 \o <<"return", " ", "false", ";">>

ReturnTrue == Indent4 \o <<"return", " ", "true", ";">>

\* '    ServerFactory::RegisterServer<{class_name}>({quoted_content});'
RegisterStatement(reg) ==
    Indent4 \o <<"ServerFactory::RegisterServer<">> \o reg.class_name \o <<">(">>
        \o <<"\"">> \o reg.server_impl_content \o <<"\"">> \o <<");">>

\* (mutant) the success statement left out
RegistrationLinesNoReturn(registrations) ==
    [k \in 1..Len(registrations) |-> RegisterStatement(registrations[k])]

\* the list lines of generate_registration_code
RegistrationLines(registrations) ==
    [k \in 1..Len(registrations) |-> RegisterStatement(registrations[k])]
        \o <<ReturnTrue>>

generate_registration_code(registrations) ==
    IF registrations = <<>> THEN ReturnFalse
    ELSE Join(RegistrationLines(registrations), <<"\n">>)

(***************************************************************************)
(* update_server_factory_init                                              *)
(***************************************************************************)
NoPlaceholder == [found |-> FALSE, start |-> 0, brace |-> 0, semi |-> 0, stop |-> 0]

\* the tokens of s[from..to] that are not white space, in order
Skeleton(s, from, to) == SelectSeq(SubSeq(s, from, to), LAMBDA t : ~IsSpace(t))

PlaceholderTokens ==
    <<"inline", "Bool", "Init", "(", ")", "{", "return", "false", ";", "}">>

\* pattern: (inline\s+Bool\s+Init\s*\(\s*\)\s*\{)\s*return\s+false\s*;(\s*\})
\* matched with its first character at position p: from p to the next "}"
\* the tokens are those of the pattern with white space between them, at
\* least one after "inline", "Bool" and "return".  brace, semi and stop are
\* the positions of "{", ";" and "}".
PlaceholderAt(s, p) ==
    IF \E k \in p..Len(s) : s[k] = "}"
    THEN CHOOSE m \in
            {IF /\ Skeleton(s, p, k) = PlaceholderTokens
                /\ \A q \in p..k : s[q] \in {"inline", "Bool", "return"} => IsSpace(s[q + 1])
             THEN [found |-> TRUE, start |-> p,
                   brace |-> CHOOSE e \in p..k : s[e] = "{",
                   semi |-> CHOOSE h \in p..k : s[h] = ";",
                   stop |-> k]
             ELSE NoPlaceholder :
                k \in {k0 \in p..Len(s) : s[k0] = "}" /\ \A j \in p..(k0 - 1) : s[j] # "}"}} :
            TRUE
    ELSE NoPlaceholder

\* pattern.search(content) from position p on: the leftmost match
PlaceholderFrom(s, p) ==
    LET ps == {q \in p..Len(s) : s[q] = "inline" /\ PlaceholderAt(s, q).found}
    IN  IF ps = {} THEN NoPlaceholder
        ELSE CHOOSE m \in {PlaceholderAt(s, q) : q \in ps} : \A q \in ps : m.start <= q

\* pattern.search(content)
placeholder_search(s) == PlaceholderFrom(s, 1)

RECURSIVE SubFrom(_, _, _)
\* pattern.sub(r'\1\n' + registration_code + r'\2', content), from position p
\* on.  The registration code holds no backslash, so the replacement template
\* expands to group 1, a newline, the code as it is, and group 2.
SubFrom(s, p, code) ==
    LET m == PlaceholderFrom(s, p)
    IN  IF ~m.found THEN SubSeq(s, p, Len(s))
        ELSE SubSeq(s, p, m.start - 1)
             \o SubSeq(s, m.start, m.brace) \o <<"\n">> \o code
             \o SubSeq(s, m.semi + 1, m.stop)
             \o SubFrom(s, m.stop + 1, code)

placeholder_sub(s, code) == SubFrom(s, 1, code)

\* content.find(t, start): offsets count from 0, -1 when there is none
find(s, t, start) ==
    LET ks == {k \in (start + 1)..Len(s) : k >= 1 /\ s[k] = t}
    IN  IF ks = {} THEN -1 ELSE MinOf(ks) - 1

\* content.rfind(t, 0, stop)
rfind(s, t, stop) ==
    LET ks == {k \in 1..Min2(stop, Len(s)) : s[k] = t}
    IN  IF ks = {} THEN -1 ELSE MaxOf(ks) - 1

\* insert_pos = content.find('\n', from) + 1, and the while loop that skips
\* blank characters up to init_start
AfterLine(s, from, init_start) ==
    CHOOSE q \in 0..Len(s) :
        \E pos \in {find(s, "\n", from) + 1} :
            IF pos >= init_start THEN q = pos
            ELSE /\ q \in pos..init_start
                 /\ \A k \in pos..(q - 1) : IsSpace(s[k + 1])
                 /\ (q = init_start \/ ~IsSpace(s[q + 1]))

\* content[:insert_pos] + include_statements + '\n\n' + content[insert_pos:]
InsertAt(s, insert_pos, include_block) ==
    SubSeq(s, 1, insert_pos) \o include_block \o <<"\n", "\n">>
        \o SubSeq(s, insert_pos + 1, Len(s))

\* the offset at which the include block is inserted, init_start the offset
\* of the placeholder
InsertPos(s, init_start) ==
    LET last_include_pos == rfind(s, "#include", init_start)
        last_comment_pos == rfind(s, "/**", init_start)
        close == find(s, "*/", last_comment_pos)
        \* find('*/', ...) + 2: the offset after the two characters of "*/",
        \* or offset 1 (inside or after the first token) when there is none
        comment_end == IF close = -1 THEN 1 ELSE close + 1
    IN  IF last_include_pos # -1 THEN AfterLine(s, last_include_pos, init_start)
        ELSE IF last_comment_pos # -1 THEN AfterLine(s, comment_end, init_start)
        ELSE init_start

\* (mutant) the block inserted without the test of init_match, at the start
\* of the text when there is no placeholder
WithIncludesAlways(content, include_block) ==
    LET init_match == placeholder_search(content)
    IN  IF include_block = <<>> THEN content
        ELSE IF ~init_match.found THEN InsertAt(content, 0, include_block)
        ELSE InsertAt(content, InsertPos(content, init_match.start - 1), include_block)

\* the block  if include_statements: ...
WithIncludes(content, include_block) ==
    LET init_match == placeholder_search(content)
    IN  IF include_block = <<>> \/ ~init_match.found THEN content
        ELSE InsertAt(content, InsertPos(content, init_match.start - 1), include_block)

\* (mutant) the error reported only when an include block was given
NotReplacedWithBlock(new_content, content, include_block) ==
    new_content = content /\ include_block # <<>>

\* if new_content == content and not include_statements
NotReplaced(new_content, content, include_block) ==
    new_content = content /\ include_block = <<>>

PlaceholderError == "Could not find placeholder Init() function to replace"

Updated(ok, msg, read, content, wrote) ==
    [result |-> [NoResult EXCEPT !.success = ok, !.error = msg],
     lines |-> read, content |-> content, wrote |-> wrote]

\* the file the function patches: library_dir / "include" / "ServerFactoryInit.h"
InitFileOf(lib_dir) == lib_dir \o <<"include", "ServerFactoryInit.h">>

\* update_server_factory_init(library_dir, registration_code, include_statements)
update_server_factory_init(files, lib_dir, code, include_block) ==
    LET f == Lookup(files, InitFileOf(lib_dir))
    IN  IF f.kind = "none"
        THEN Updated(FALSE, "ServerFactoryInit.h not found", <<>>, f.content, FALSE)
        ELSE IF f.kind # "file"
        THEN Updated(FALSE, "Error updating ServerFactoryInit.h", <<>>, f.content, FALSE)
        ELSE CHOOSE r \in
                {IF NotReplaced(new_content, content, include_block)
                 THEN Updated(FALSE, PlaceholderError, <<f.content>>, f.content, FALSE)
                 ELSE Updated(TRUE, "", <<f.content>>, new_content, TRUE) :
                    content \in {WithIncludes(f.content, include_block)},
                    new_content \in {placeholder_sub(WithIncludes(f.content, include_block),
                                                     code)}} : TRUE

(***************************************************************************)
(* The run of L3 main() (Spec).                                            *)
(***************************************************************************)
\* the candidate files of the runs
ContentA == MarkerAndClass \o MarkerLine \o ClassLine
ContentB == CommentedLine(server_impl_search(MarkerLine)) \o ClassLine
ContentC == MarkerAndClass \o Blank \o MarkerAndClass
ContentD == MarkerLine \o Blank
ContentF == MarkerLine \o MarkerAndClass \o ClassLine
ContentR == MarkerLine \o ClassLine

\* the templates
PlaceholderPlain ==
    <<"inline", " ", "Bool", " ", "Init", "(", ")", " ", "{", "\n">>
        \o ReturnFalse \o <<"\n", "}">>
PlaceholderCompact ==
    <<"inline", " ", "Bool", " ", "Init", "(", ")", "{", "return", " ", "false", ";", "}">>
PlaceholderSpread ==
    <<"inline", "\t", "Bool", " ", "Init", " ", "(", " ", ")", "\n", "{", "\n",
      "\t", "return", " ", " ", "false", " ", ";", " ", "}">>
InitDone ==
    <<"inline", " ", "Bool", " ", "Init", "(", ")", " ", "{", "\n">>
        \o ReturnTrue \o <<"\n", "}">>
IncludeHead == <<"#include", " ", "\"", "ServerFactory.h", "\"", "\n", "\n">>
CommentHead == <<"/**", " ", "x", " ", "*/", "\n">>
\* a block comment on the line of the placeholder
CommentOnLine == <<"/**", " ", "x", " ", "*/", " ">>

TemplateHeads == {<<>>, IncludeHead, CommentHead, IncludeHead \o CommentHead, CommentOnLine}
TemplateBodies == {PlaceholderPlain, PlaceholderCompact, PlaceholderSpread, InitDone}
Templates == {h \o b \o <<"\n">> : h \in TemplateHeads, b \in TemplateBodies}

RunTemplates ==
    {RegularFile(IncludeHead \o CommentHead \o PlaceholderPlain \o <<"\n">>),
     RegularFile(IncludeHead \o InitDone \o <<"\n">>),
     NoFile}

\* the files main() is given: sources of the library, paths that fail, and the
\* template itself, which is one of the headers of the library
CandidatePaths ==
    {FileA, FileAAlias, FileB, FileD, FileF, FileR, FileGone, IncludeDir, InitFile}

CandidateLists == UNION {[1..n -> CandidatePaths] : n \in 1..MaxFiles}

\* the file system the runs start from, with the given template
Disk(template) ==
    [p \in FsPaths |->
        CASE p = FileA -> RegularFile(ContentA)
          [] p = FileB -> RegularFile(ContentB)
          [] p = FileC -> RegularFile(ContentC)
          [] p = FileD -> RegularFile(ContentD)
          [] p = FileE -> Unreadable
          [] p = FileF -> RegularFile(ContentF)
          [] p = FileR -> ReadOnlyFile(ContentR)
          [] p = IncludeDir -> Directory
          [] p = InitFile -> template
          [] OTHER -> NoFile]

NoCall == [op |-> "none", path |-> <<>>, dry_run |-> FALSE,
           result |-> NoResult, lines |-> <<>>, wrote |-> FALSE]

Called(op, path, dry_run, r) ==
    [op |-> op, path |-> path, dry_run |-> dry_run,
     result |-> r.result, lines |-> r.lines, wrote |-> r.wrote]

\* what a call leaves in the file system
Written(files, path, r) ==
    IF r.wrote THEN [files EXCEPT ![Resolve(path)] = RegularFile(r.content)] ELSE files

\* the files a call opened: for reading when it got to the open(), for writing
Opened(path, f, r) ==
    (IF f.kind \in {"file", "readonly"}
     THEN <<[mode |-> "r", path |-> Resolve(path)]>> ELSE <<>>)
        \o (IF r.wrote THEN <<[mode |-> "w", path |-> Resolve(path)]>> ELSE <<>>)

\* the dict main() appends for one match
Registration(match) ==
    [class_name |-> match.class_name,
     server_impl_content |-> match.server_impl_content,
     file_path |-> match.file_path]

\* (mutant) a match dropped when its class is registered already
AccumulatedUnique(registrations, matches) ==
    registrations \o SelectSeq([k \in 1..Len(matches) |-> Registration(matches[k])],
                    LAMBDA r : \A k \in 1..Len(registrations) :
                                  registrations[k].class_name # r.class_name)

\* all_registrations after the for-match loop
Accumulated(registrations, matches) ==
    registrations \o [k \in 1..Len(matches) |-> Registration(matches[k])]

\* (mutant) the loop without its  if result['error']: continue
HasErrorNever(result) == FALSE

\* if result['error']
HasError(result) == result.error # ""

\* one iteration of main()'s for loop
ProcessFile ==
    /\ pc = "loop"
    /\ idx <= Len(file_paths)
    /\ \E path \in {file_paths[idx]} :
       \E f \in {Lookup(fs, path)} :
       \E r \in {check_and_comment_server_impl(f, path)} :
           /\ last' = Called("check_and_comment_server_impl", path, FALSE, r)
           /\ fs' = Written(fs, path, r)
           /\ io' = io \o Opened(path, f, r)
           /\ IF HasError(r.result)
              THEN UNCHANGED <<all_registrations, processed_count, commented_count>>
              ELSE IF r.result.found
              THEN /\ processed_count' = processed_count + 1
                   /\ commented_count' =
                         IF r.result.modified THEN commented_count + 1
                         ELSE commented_count
                   /\ all_registrations' = Accumulated(all_registrations, r.result.matches)
              ELSE UNCHANGED <<all_registrations, processed_count, commented_count>>
    /\ idx' = idx + 1
    /\ UNCHANGED <<pc, file_paths, library_dir, include_statements, registration_code,
                   exit_code>>

\* the summary after the loop, and sys.exit(0) when there is nothing to register
Summary ==
    /\ pc = "loop"
    /\ idx > Len(file_paths)
    /\ IF all_registrations = <<>>
       THEN pc' = "exit" /\ exit_code' = 0
       ELSE pc' = "generate" /\ UNCHANGED exit_code
    /\ UNCHANGED <<fs, last, file_paths, library_dir, idx, all_registrations,
                   processed_count, commented_count, include_statements,
                   registration_code, io>>

\* generate_include_statements and generate_registration_code
Generate ==
    /\ pc = "generate"
    /\ include_statements' = generate_include_statements(all_registrations, library_dir)
    /\ registration_code' = generate_registration_code(all_registrations)
    /\ pc' = "update"
    /\ UNCHANGED <<fs, last, file_paths, library_dir, idx, all_registrations,
                   processed_count, commented_count, exit_code, io>>

\* update_server_factory_init and the exit status
Update ==
    /\ pc = "update"
    /\ \E path \in {InitFileOf(library_dir)} :
       \E f \in {Lookup(fs, path)} :
       \E r \in {update_server_factory_init(fs, library_dir, registration_code,
                                            include_statements)} :
           /\ last' = Called("update_server_factory_init", path, FALSE, r)
           /\ fs' = Written(fs, path, r)
           /\ io' = io \o Opened(path, f, r)
           /\ exit_code' = IF r.result.error # "" THEN 1
                           ELSE IF r.result.success THEN 0 ELSE 1
    /\ pc' = "exit"
    /\ UNCHANGED <<file_paths, library_dir, idx, all_registrations, processed_count,
                   commented_count, include_statements, registration_code>>

Init ==
    /\ pc = "loop"
    /\ last = NoCall
    /\ \E t \in RunTemplates : fs = Disk(t)
    /\ file_paths \in CandidateLists
    /\ library_dir = LibDir
    /\ idx = 1
    /\ all_registrations = <<>>
    /\ processed_count = 0
    /\ commented_count = 0
    /\ include_statements = <<>>
    /\ registration_code = <<>>
    /\ exit_code = -1
    /\ io = <<>>

Next == ProcessFile \/ Summary \/ Generate \/ Update

Spec == Init /\ [][Next]_vars

(***************************************************************************)
(* The library functions called on their own (SpecScan).                   *)
(***************************************************************************)
CallCheck(path) ==
    /\ pc = "lib"
    /\ \E r \in {check_server_impl(Lookup(fs, path), path)} :
           /\ last' = Called("check_server_impl", path, FALSE, r)
           /\ fs' = Written(fs, path, r)
    /\ UNCHANGED runVars

CallComment(path, dry_run) ==
    /\ pc = "lib"
    /\ \E r \in {comment_server_impl(Lookup(fs, path), path, dry_run)} :
           /\ last' = Called("comment_server_impl", path, dry_run, r)
           /\ fs' = Written(fs, path, r)
    /\ UNCHANGED runVars

CallCheckAndComment(path) ==
    /\ pc = "lib"
    /\ \E r \in {check_and_comment_server_impl(Lookup(fs, path), path)} :
           /\ last' = Called("check_and_comment_server_impl", path, FALSE, r)
           /\ fs' = Written(fs, path, r)
    /\ UNCHANGED runVars

InitScan ==
    /\ pc = "lib"
    /\ last = NoCall
    /\ \E c \in ScanContents :
          fs = [p \in FsPaths |->
                   IF p = FileA THEN RegularFile(c)
                   ELSE IF p = IncludeDir THEN Directory ELSE NoFile]
    /\ file_paths = <<FileA>>
    /\ library_dir = LibDir
    /\ idx = 1
    /\ all_registrations = <<>>
    /\ processed_count = 0
    /\ commented_count = 0
    /\ include_statements = <<>>
    /\ registration_code = <<>>
    /\ exit_code = -1
    /\ io = <<>>

NextScan ==
    \/ CallCheck(FileA)
    \/ \E dry_run \in BOOLEAN : CallComment(FileA, dry_run)
    \/ CallCheckAndComment(FileA)

SpecScan == InitScan /\ [][NextScan]_vars

(***************************************************************************)
(* The synthesizer and the patcher called on their own (SpecSynth): a      *)
(* caller holds a list of registrations, generates the two blocks from it  *)
(* and patches the template with what it holds.                            *)
(***************************************************************************)
RegA1 == [class_name |-> <<"A">>, server_impl_content |-> <<"a">>, file_path |-> FileA]
RegA2 == [class_name |-> <<"A">>, server_impl_content |-> <<"b">>, file_path |-> FileAAlias]
RegB == [class_name |-> <<"B">>, server_impl_content |-> <<"a">>, file_path |-> FileB]
RegC == [class_name |-> <<"C">>, server_impl_content |-> <<>>, file_path |-> FileC]

RegCatalogue == {RegA1, RegA2, RegB, RegC}

RegLists == UNION {[1..n -> RegCatalogue] : n \in 0..MaxRegs}

CallGenerateIncludes ==
    /\ pc = "lib"
    /\ include_statements' = generate_include_statements(all_registrations, library_dir)
    /\ last' = [NoCall EXCEPT !.op = "generate_include_statements"]
    /\ UNCHANGED <<fs, pc, file_paths, library_dir, idx, all_registrations,
                   processed_count, commented_count, registration_code, exit_code, io>>

CallGenerateRegistration ==
    /\ pc = "lib"
    /\ registration_code' = generate_registration_code(all_registrations)
    /\ last' = [NoCall EXCEPT !.op = "generate_registration_code"]
    /\ UNCHANGED <<fs, pc, file_paths, library_dir, idx, all_registrations,
                   processed_count, commented_count, include_statements, exit_code, io>>

\* the patcher called with the blocks generated so far; include_statements is
\* the empty block until generate_include_statements has filled it
CallUpdate ==
    /\ pc = "lib"
    /\ registration_code # <<>>
    /\ \E path \in {InitFileOf(library_dir)} :
       \E r \in {update_server_factory_init(fs, library_dir, registration_code,
                                            include_statements)} :
           /\ last' = Called("update_server_factory_init", path, FALSE, r)
           /\ fs' = Written(fs, path, r)
    /\ UNCHANGED runVars

InitSynth ==
    /\ pc = "lib"
    /\ last = NoCall
    /\ \E t \in Templates : fs = Disk(RegularFile(t))
    /\ file_paths = <<>>
    /\ library_dir \in {LibDir, LibDirLong}
    /\ idx = 1
    /\ all_registrations \in RegLists
    /\ processed_count = 0
    /\ commented_count = 0
    /\ include_statements = <<>>
    /\ registration_code = <<>>
    /\ exit_code = -1
    /\ io = <<>>

NextSynth == CallGenerateIncludes \/ CallGenerateRegistration \/ CallUpdate

SpecSynth == InitSynth /\ [][NextSynth]_vars

(***************************************************************************)
(* extract_bracket_content called on its own (SpecArgs), on the texts a    *)
(* marker's brackets can hold: white space, quotes of both kinds, a letter.*)
(***************************************************************************)
ArgTokens == {" ", "\"", "'", "a"}

Arguments == UNION {[1..n -> ArgTokens] : n \in 0..MaxArg}

\* the call record of extract_bracket_content(content): the argument as the
\* one line read, the value returned as the argument of the one match
CallExtract(content) ==
    /\ pc = "lib"
    /\ last' = [NoCall EXCEPT
                  !.op = "extract_bracket_content",
                  !.lines = <<content>>,
                  !.result = [NoResult EXCEPT
                                !.matches = <<[server_impl_content |->
                                                 extract_bracket_content(content)]>>]]
    /\ UNCHANGED fs
    /\ UNCHANGED runVars

InitArgs ==
    /\ pc = "lib"
    /\ last = NoCall
    /\ fs = Disk(NoFile)
    /\ file_paths = <<>>
    /\ library_dir = LibDir
    /\ idx = 1
    /\ all_registrations = <<>>
    /\ processed_count = 0
    /\ commented_count = 0
    /\ include_statements = <<>>
    /\ registration_code = <<>>
    /\ exit_code = -1
    /\ io = <<>>

NextArgs == \E content \in Arguments : CallExtract(content)

SpecArgs == InitArgs /\ [][NextArgs]_vars

(***************************************************************************)
(* Claims about the scan and the rewrite of one file (SpecScan).           *)
(***************************************************************************)
HasMarker(line) == LineSearch(line).m.found

HasClass(line) == LineSearch(line).c.found

\* the last call was a pass of a function that rewrites the file
NeutralizingCall(call) ==
    \/ call.op = "check_and_comment_server_impl"
    \/ call.op = "comment_server_impl" /\ ~call.dry_run

\* the last call reported matches: check_server_impl or check_and_comment_server_impl
MatchingCall(call) ==
    /\ call.op \in {"check_server_impl", "check_and_comment_server_impl"}
    /\ call.result.error = ""

\* the lines i+1..i+5 of the file that hold a qualifying class declaration
ClassesWithin5(lines, i) ==
    {j \in 1..Len(lines) : i + 1 <= j /\ j <= i + 5 /\ HasClass(lines[j])}

\* C1: a marker line i yields a match exactly when one of the lines i+1..i+5
\* (clipped to the end of the file) holds a qualifying class declaration; the
\* match carries the class name of the first such line and the normalized
\* argument of line i; no other line yields a match, and the matches are in
\* ascending line order.
C1_MatchIffClassWithinFive ==
    MatchingCall(last) =>
        LET lines == last.lines
            ms == last.result.matches
            expected == {i \in 1..Len(lines) :
                            HasMarker(lines[i]) /\ ClassesWithin5(lines, i) # {}}
        IN  /\ {ms[k].line_number : k \in 1..Len(ms)} = expected
            /\ Len(ms) = Cardinality(expected)
            /\ \A k \in 1..Len(ms) : \A l \in 1..Len(ms) :
                  k < l => ms[k].line_number < ms[l].line_number
            /\ \A k \in 1..Len(ms) :
                  LET i == ms[k].line_number
                      j == MinOf(ClassesWithin5(lines, i))
                  IN  /\ ms[k].class_name = LineSearch(lines[j]).c.name
                      /\ ms[k].server_impl_content =
                            extract_bracket_content(LineSearch(lines[i]).m.content)
            /\ last.result.found = (expected # {})

\* C1 witness: one scan in which a marker whose class is exactly 5 lines below
\* is matched and a marker whose first class is 6 lines below is not.
C1_Witness ==
    /\ last.op = "check_and_comment_server_impl"
    /\ \E i \in 1..Len(last.lines) :
          /\ HasMarker(last.lines[i])
          /\ ClassesWithin5(last.lines, i) = {i + 5}
          /\ \E k \in 1..Len(last.result.matches) :
                last.result.matches[k].line_number = i
    /\ \E i \in 1..Len(last.lines) :
          /\ HasMarker(last.lines[i])
          /\ ClassesWithin5(last.lines, i) = {}
          /\ i + 6 <= Len(last.lines)
          /\ HasClass(last.lines[i + 6])
          /\ \A k \in 1..Len(last.result.matches) :
                last.result.matches[k].line_number # i

\* C2: a neutralizing pass that follows a neutralizing pass of the same file
\* leaves the file as it is and reports modified = False.
C2_SecondPassIsNoOp ==
    [][(/\ NeutralizingCall(last)
        /\ last.result.error = ""
        /\ NeutralizingCall(last')
        /\ last'.path = last.path)
       => (fs' = fs /\ ~last'.result.modified /\ ~last'.wrote
           /\ last'.result.commented_lines = <<>>)]_vars

\* C2 witness: a pass that found matches, all of them already commented; the
\* files of SpecScan start without a commented marker, so an earlier pass
\* wrote them.
C2_Witness ==
    /\ NeutralizingCall(last)
    /\ last.op = "check_and_comment_server_impl"
    /\ last.result.found
    /\ ~last.result.modified
    /\ \E i \in 1..Len(last.lines) :
          HasMarker(last.lines[i]) /\ startswith(lstrip(last.lines[i]), "//")

\* the marker lines of the file a pass has to rewrite
LinesToRewrite(lines) ==
    {i \in 1..Len(lines) :
        /\ HasMarker(lines[i])
        /\ ClassesWithin5(lines, i) # {}
        /\ ~startswith(lstrip(lines[i]), "//")}

\* C3: a call opens the file for writing only if it rewrote at least one line:
\* never when no marker has a class inside its window or every matched marker
\* is already commented, and never in check_server_impl or a dry run.
C3_WriteOnlyIfModified ==
    /\ last.wrote => /\ NeutralizingCall(last)
                     /\ last.result.modified
                     /\ LinesToRewrite(last.lines) # {}
    /\ (NeutralizingCall(last) /\ LinesToRewrite(last.lines) = {}) =>
          ~last.wrote /\ ~last.result.modified

\* C3 witness: a pass over a file with a marker, none of them to rewrite, that
\* did not open the file for writing.
C3_Witness ==
    /\ NeutralizingCall(last)
    /\ last.result.error = ""
    /\ \E i \in 1..Len(last.lines) : HasMarker(last.lines[i])
    /\ LinesToRewrite(last.lines) = {}
    /\ ~last.wrote

StartDisk == Disk(fs[InitFile])

\* the entries main() appends for the matches of one call
MatchEntries(matches) == [k \in 1..Len(matches) |-> Registration(matches[k])]

RECURSIVE Replay(_, _, _)
\* the files and the registration list after the first n files of paths were
\* scanned one after the other, starting from files; the matches of a call
\* that reports an error are not taken
Replay(files, paths, n) ==
    IF n = 0 THEN [files |-> files, regs |-> <<>>]
    ELSE LET before == Replay(files, paths, n - 1)
             r == check_and_comment_server_impl(Lookup(before.files, paths[n]), paths[n])
         IN  [files |-> Written(before.files, paths[n], r),
              regs |-> before.regs \o (IF r.result.error = ""
                                       THEN MatchEntries(r.result.matches) ELSE <<>>)]

\* C5: the registration list is the concatenation, in the order of the file
\* list, of the matches each error-free file returned, in ascending line
\* order; every iteration of the loop (the steps that advance idx) appends all
\* the matches of its file, whatever class names the list holds already.
C5_AccumulatorKeepsAllInOrder ==
    /\ [](all_registrations = Replay(StartDisk, file_paths, idx - 1).regs)
    /\ [][idx' = idx + 1 =>
            LET ms == IF last'.result.error = "" THEN last'.result.matches ELSE <<>>
            IN  /\ all_registrations' = all_registrations \o MatchEntries(ms)
                /\ Len(all_registrations') = Len(all_registrations) + Len(ms)
                /\ \A k \in 1..Len(ms) : \A l \in 1..Len(ms) :
                      k < l => ms[k].line_number < ms[l].line_number]_vars

\* C5 witness: the loop is over; the list holds the entries of two files, and
\* two entries of the same class name that came from different files.
C5_Witness ==
    /\ pc # "loop"
    /\ Len(file_paths) = 2
    /\ Len(all_registrations) >= 3
    /\ \E k \in 1..Len(all_registrations) : \E l \in 1..Len(all_registrations) :
          /\ k < l
          /\ all_registrations[k].class_name = all_registrations[l].class_name
          /\ all_registrations[k].file_path # all_registrations[l].file_path

(***************************************************************************)
(* Claims about the generated blocks and the patch (SpecSynth).            *)
(***************************************************************************)
\* the lines of a generated block, without their line ends
BlockLines(block) ==
    LET ls == readlines(block)
    IN  [k \in 1..Len(ls) |->
            IF ls[k][Len(ls[k])] = "\n" THEN SubSeq(ls[k], 1, Len(ls[k]) - 1) ELSE ls[k]]

\* the entries whose resolved file no earlier entry has
FirstSeen(regs) ==
    {k \in 1..Len(regs) :
        \A l \in 1..(k - 1) : Resolve(regs[l].file_path) # Resolve(regs[k].file_path)}

DistinctFiles(regs) == {Resolve(regs[k].file_path) : k \in 1..Len(regs)}

\* C6: the include block holds one directive per distinct resolved file of the
\* registration list, in the order in which the files first occur in the list.
C6_OneIncludePerDistinctFile ==
    last.op = "generate_include_statements" =>
        LET ds == BlockLines(include_statements)
            order == Ascending(FirstSeen(all_registrations))
        IN  /\ Len(ds) = Cardinality(DistinctFiles(all_registrations))
            /\ Len(ds) = Len(order)
            /\ \A j \in 1..Len(ds) :
                  ds[j] = <<"#include", " ">>
                             \o IncludePath(Resolve(all_registrations[order[j]].file_path),
                                            Resolve(library_dir))

\* C6 witness: a list in which a file occurs twice, under two spellings of its
\* path, with another file between the two, gave two directives.
C6_Witness ==
    /\ last.op = "generate_include_statements"
    /\ Len(all_registrations) = 3
    /\ all_registrations[1].file_path # all_registrations[3].file_path
    /\ Resolve(all_registrations[1].file_path) = Resolve(all_registrations[3].file_path)
    /\ Resolve(all_registrations[2].file_path) # Resolve(all_registrations[1].file_path)
    /\ Len(BlockLines(include_statements)) = 2

Quoted(text) == <<"\"">> \o text \o <<"\"">>

\* C7: the directive of a file under <library_dir>/include is the quoted path
\* relative to that directory; of another file under <library_dir> the quoted
\* path relative to <library_dir>; of any other file the absolute path in
\* angle brackets.
C7_IncludeFormPriority ==
    last.op = "generate_include_statements" =>
        LET ds == BlockLines(include_statements)
            order == Ascending(FirstSeen(all_registrations))
            lib == Resolve(library_dir)
            include_dir == lib \o <<"include">>
        IN  \A j \in 1..Len(ds) :
               LET p == Resolve(all_registrations[order[j]].file_path)
                   path == SubSeq(ds[j], 3, Len(ds[j]))
               IN  /\ j <= Len(order)
                   /\ SubSeq(ds[j], 1, 2) = <<"#include", " ">>
                   /\ IsPrefix(include_dir, p) =>
                         /\ path = Quoted(PathText(RelativeTo(p, include_dir)))
                         /\ path # Quoted(PathText(RelativeTo(p, lib)))
                         /\ path[1] # "<"
                   /\ (~IsPrefix(include_dir, p) /\ IsPrefix(lib, p)) =>
                         path = Quoted(PathText(RelativeTo(p, lib)))
                   /\ ~IsPrefix(lib, p) =>
                         path = <<"<", "/">> \o PathText(p) \o <<">">>

\* C7 witness: a block with a directive of each form.
C7_Witness ==
    /\ last.op = "generate_include_statements"
    /\ include_statements =
          <<"#include", " ", "\"", "a.h", "\"", "\n",
            "#include", " ", "\"", "src", "/", "b.h", "\"", "\n",
            "#include", " ", "<", "/", "ext", "/", "c.h", ">">>

\* C8: for a list of n > 0 entries the registration code is n statements
\*     ServerFactory::RegisterServer<class>("argument");
\* one per entry and in the order of the list, and then the one line
\* "    return true;"; for the empty list it is the one line "    return false;".
C8_RegistrationCode ==
    last.op = "generate_registration_code" =>
        LET ls == BlockLines(registration_code)
            n == Len(all_registrations)
        IN  IF n = 0
            THEN registration_code = <<" ", " ", " ", " ", "return", " ", "false", ";">>
            ELSE /\ Len(ls) = n + 1
                 /\ \A k \in 1..n :
                       ls[k] = <<" ", " ", " ", " ", "ServerFactory::RegisterServer<">>
                                  \o all_registrations[k].class_name \o <<">(">>
                                  \o Quoted(all_registrations[k].server_impl_content)
                                  \o <<");">>
                 /\ ls[n + 1] = <<" ", " ", " ", " ", "return", " ", "true", ";">>

\* C8 witness: the code of a list that holds the same class twice, with
\* different arguments.
C8_Witness ==
    /\ last.op = "generate_registration_code"
    /\ Len(all_registrations) = 3
    /\ all_registrations[1].class_name = all_registrations[2].class_name
    /\ all_registrations[1].server_impl_content # all_registrations[2].server_impl_content
    /\ Len(BlockLines(registration_code)) = 4

\* the last call was update_server_factory_init and got to read the template
PatchCall(call) ==
    /\ call.op = "update_server_factory_init"
    /\ Len(call.lines) = 1

\* C9: the patcher called with the registration code of the empty list and the
\* empty include block, on a template that holds the placeholder, returns
\* success = True and no error.
C9_ZeroRegistrationPatchSucceeds ==
    (/\ PatchCall(last)
     /\ all_registrations = <<>>
     /\ registration_code = generate_registration_code(<<>>)
     /\ include_statements = <<>>
     /\ placeholder_search(last.lines[1]).found)
    => (last.result.success /\ last.result.error = "")

C11_NoPlaceholderFailsTheRun ==
    (/\ pc = "exit"
     /\ PatchCall(last)
     /\ all_registrations # <<>>
     /\ include_statements # <<>>
     /\ ~placeholder_search(last.lines[1]).found)
    => (~last.result.success /\ exit_code # 0)

(***************************************************************************)
(* Claims about the patched template (SpecSynth).                          *)
(***************************************************************************)
\* the offsets at which the claimed anchor rule lets the include block start
\* in template t with its placeholder at position start: after the line of
\* the last "#include" before the placeholder; without one, after the last
\* block comment before it; without either, right before the placeholder.
\* Only white space may lie between the anchor and the block, and the block
\* lies before the placeholder.
AnchorOffsets(t, start) ==
    LET incs == {k \in 1..(start - 1) : t[k] = "#include"}
        coms == {k \in 1..(start - 1) : t[k] = "/**"}
        ends == IF incs # {}
                THEN {k \in MaxOf(incs)..(start - 1) : t[k] = "\n"}
                ELSE IF coms # {}
                THEN {k \in MaxOf(coms)..(start - 1) : t[k] = "*/"}
                ELSE {start - 1}
    IN  IF ends = {} THEN {}
        ELSE {a \in MinOf(ends)..(start - 1) :
                 \A k \in (MinOf(ends) + 1)..a : IsSpace(t[k])}

\* C12: a patch with an include block puts the block, as one piece followed
\* by a blank line, at an offset the anchor rule allows: after the last
\* "#include" before the placeholder, else after the last block comment
\* before it, else right before the placeholder.
C12_IncludeAnchorPriority ==
    (/\ PatchCall(last)
     /\ include_statements # <<>>
     /\ placeholder_search(last.lines[1]).found)
    => /\ last.wrote
       /\ \E a \in AnchorOffsets(last.lines[1], placeholder_search(last.lines[1]).start) :
             Lookup(fs, last.path).content =
                placeholder_sub(SubSeq(last.lines[1], 1, a) \o include_statements
                                    \o <<"\n", "\n">>
                                    \o SubSeq(last.lines[1], a + 1, Len(last.lines[1])),
                                registration_code)

(***************************************************************************)
(* Claims about errors in a run of main() (Spec).                          *)
(***************************************************************************)
\* the call on the path reports an error; the kinds of the files and the
\* content of the read-only one do not change in a run, so this does not
\* depend on when the path is scanned
Fails(path) ==
    check_and_comment_server_impl(Lookup(StartDisk, path), path).result.error # ""

RECURSIVE RunOver(_, _, _)
\* the files, the registration list and the two counters after main()'s loop
\* went over the first n files of paths, started on files
RunOver(files, paths, n) ==
    IF n = 0 THEN [files |-> files, regs |-> <<>>, processed |-> 0, commented |-> 0]
    ELSE LET before == RunOver(files, paths, n - 1)
             r == check_and_comment_server_impl(Lookup(before.files, paths[n]), paths[n])
             hit == r.result.error = "" /\ r.result.found
         IN  [files |-> Written(before.files, paths[n], r),
              regs |-> before.regs \o (IF hit THEN MatchEntries(r.result.matches) ELSE <<>>),
              processed |-> before.processed + (IF hit THEN 1 ELSE 0),
              commented |-> before.commented
                               + (IF hit /\ r.result.modified THEN 1 ELSE 0)]

\* C13: the files, the registration list and the counters are, after any
\* number of candidates, what the loop gives on the same candidates with the
\* failing ones left out of the list; a step on a failing candidate changes
\* none of them, and the loop goes on to the end of the list.
C13_FileErrorsAreLocal ==
    /\ [](LET done == SubSeq(file_paths, 1, idx - 1)
              good == SelectSeq(done, LAMBDA p : ~Fails(p))
              r == RunOver(StartDisk, good, Len(good))
          IN  /\ all_registrations = r.regs
              /\ processed_count = r.processed
              /\ commented_count = r.commented
              /\ \A p \in FsPaths \ {InitFile} : fs[p] = r.files[p]
              /\ pc # "loop" => idx = Len(file_paths) + 1)
    /\ [][(idx' = idx + 1 /\ last'.result.error # "") =>
            UNCHANGED <<fs, all_registrations, processed_count, commented_count>>]_vars

\* C13 witness: the loop is over; a candidate whose write-back failed after
\* its markers were matched came first, and the next candidate was neutralized
\* and registered.
C13_Witness ==
    /\ pc # "loop"
    /\ Len(file_paths) = 2
    /\ file_paths[1] = FileR
    /\ ~Fails(file_paths[2])
    /\ commented_count = 1
    /\ all_registrations # <<>>

\* C14: a run ends with a non-zero exit status when a candidate reported a
\* file-access error, and with status 0 only when no candidate did and the
\* run had nothing to register or patched the template successfully.
C14_ExitStatusReportsFileErrors ==
    pc = "exit" =>
        /\ (\E k \in 1..Len(file_paths) : Fails(file_paths[k])) => exit_code # 0
        /\ exit_code = 0 =>
              /\ \A k \in 1..Len(file_paths) : ~Fails(file_paths[k])
              /\ \/ all_registrations = <<>>
                 \/ last.op = "update_server_factory_init" /\ last.result.success

(***************************************************************************)
(* Claims about the normalization of the argument (SpecArgs).              *)
(***************************************************************************)
\* the text without the white space at its two ends
Trimmed(text) ==
    LET keep == {k \in 1..Len(text) : text[k] \notin {" ", "\t", "\n"}}
    IN  IF keep = {} THEN <<>> ELSE SubSeq(text, MinOf(keep), MaxOf(keep))

\* the text is wrapped in a pair of double quotes or a pair of single quotes
WrappedInPair(text) ==
    /\ Len(text) >= 2
    /\ text[1] \in {"\"", "'"}
    /\ text[Len(text)] = text[1]

\* C15: extract_bracket_content returns the trimmed argument without its
\* outer quotes when it is wrapped in a matching pair of quotes, and the
\* trimmed argument as it is in every other case.
C15_ArgumentNormalization ==
    last.op = "extract_bracket_content" =>
        LET t == Trimmed(last.lines[1])
            out == last.result.matches[1].server_impl_content
        IN  IF WrappedInPair(t) THEN out = SubSeq(t, 2, Len(t) - 1) ELSE out = t

(***************************************************************************)
(* Claims about what a pass does to the lines of a file (SpecScan).        *)
(***************************************************************************)
\* the marker lines of the file with a class declaration inside their window
LinesMatched(lines) ==
    {i \in 1..Len(lines) : HasMarker(lines[i]) /\ ClassesWithin5(lines, i) # {}}

\* the lines of the file the last call was made on, as they are now
LinesNow == readlines(Lookup(fs, last.path).content)

\* C16: after a neutralizing pass the declaration line of every match, the
\* first line with a class declaration among the 5 lines after the marker
\* line, is the line it was before the pass.
C16_DeclarationLinesUntouched ==
    (NeutralizingCall(last) /\ last.result.error = "") =>
        \A i \in LinesMatched(last.lines) :
            LET j == MinOf(ClassesWithin5(last.lines, i))
            IN  LinesNow[j] = last.lines[j]

\* C17: after a neutralizing pass every matched marker line that was not
\* commented is the line it was with the invocation ServerImpl(ARGS) replaced
\* by "// ServerImpl(ARGS)": the text before and after the invocation is kept.
C17_OnlyInvocationReplaced ==
    (NeutralizingCall(last) /\ last.result.error = "") =>
        \A i \in LinesToRewrite(last.lines) :
            LET line == last.lines[i]
                m == LineSearch(line).m
                from == m.stop - Len(m.macro) + 1
            IN  LinesNow[i] = SubSeq(line, 1, from - 1) \o <<"//", " ">> \o m.macro
                                 \o SubSeq(line, m.stop + 1, Len(line))

\* C18: a pass of check_and_comment_server_impl that follows a pass of it over
\* the same file returns the matches the first pass returned.
C18_RescanGivesSameMatches ==
    [][(/\ last.op = "check_and_comment_server_impl"
        /\ last.result.error = ""
        /\ last'.op = "check_and_comment_server_impl"
        /\ last'.path = last.path)
       => last'.result.matches = last.result.matches]_vars

\* template t with the text between the "{" and the white space before the
\* "}" of placeholder m replaced by a newline and the code, and with the
\* include block followed by a blank line put at offset a of t, which lies
\* before the placeholder or after it
PatchedAt(t, m, code, block, a) ==
    LET piece == IF block = <<>> THEN <<>> ELSE block \o <<"\n", "\n">>
        body == <<"\n">> \o code
    IN  IF a < m.start
        THEN SubSeq(t, 1, a) \o piece \o SubSeq(t, a + 1, m.brace) \o body
                \o SubSeq(t, m.semi + 1, Len(t))
        ELSE SubSeq(t, 1, m.brace) \o body \o SubSeq(t, m.semi + 1, a) \o piece
                \o SubSeq(t, a + 1, Len(t))

\* C19: the text written for a template with the placeholder is the template
\* with the body of the placeholder replaced by the registration code, once,
\* between the unchanged "inline Bool Init() {" and "}", and with the include
\* block put somewhere outside the placeholder; all other text is kept.
C19_OnlyPlaceholderBodyReplaced ==
    (/\ PatchCall(last)
     /\ last.wrote
     /\ placeholder_search(last.lines[1]).found)
    => LET t == last.lines[1]
           m == placeholder_search(t)
       IN  \E a \in (0..(m.start - 1)) \cup (m.stop..Len(t)) :
              Lookup(fs, last.path).content =
                 PatchedAt(t, m, registration_code, include_statements, a)

(***************************************************************************)
(* Claims about the order of the file accesses of a run of main() (Spec).  *)
(***************************************************************************)
\* the positions of io at which the template is opened in the given mode
TemplateOpens(mode) ==
    {k \in 1..Len(io) : io[k].path = Resolve(InitFile) /\ io[k].mode = mode}

\* the opens of the candidates of the file list, in the order of the list: a
\* read of each candidate that is a file and, when given, a write after it
CandidateOpensInOrder(log) ==
    \E cut \in [0..Len(file_paths) -> 0..Len(log)] :
        /\ cut[0] = 0
        /\ \A k \in 1..Len(file_paths) :
              /\ cut[k - 1] <= cut[k]
              /\ \A j \in (cut[k - 1] + 1)..cut[k] :
                    /\ log[j].path = Resolve(file_paths[k])
                    /\ log[j].mode = IF j = cut[k - 1] + 1 THEN "r" ELSE "w"
              /\ cut[k] - cut[k - 1] <= 2
        /\ \A j \in (cut[Len(file_paths)] + 1)..Len(log) :
              log[j].path = Resolve(InitFile)

\* C20: in a run the template is opened for reading at most once and for
\* writing at most once, after the opens of all the candidates, which come in
\* the order of the file list; it is written only when the run has
\* registrations.
C20_TemplateOnceAfterAllSources ==
    /\ Cardinality(TemplateOpens("r")) <= 1
    /\ Cardinality(TemplateOpens("w")) <= 1
    /\ \A k \in TemplateOpens("r") \cup TemplateOpens("w") :
          /\ pc = "exit"
          /\ \A j \in 1..Len(io) : io[j].path # Resolve(InitFile) => j < k
    /\ TemplateOpens("w") # {} => all_registrations # <<>>
    /\ pc = "exit" => CandidateOpensInOrder(io)

(***************************************************************************)
(* Claims about a second patch of the template (SpecSynth).                *)
(***************************************************************************)
\* the call is a patch with a generated include block that wrote the template
PatchedWithIncludes(call) ==
    /\ PatchCall(call)
    /\ call.result.success
    /\ call.wrote
    /\ include_statements = generate_include_statements(all_registrations, library_dir)
    /\ include_statements # <<>>
    /\ registration_code = generate_registration_code(all_registrations)

C22_IncludeBlockBeforePlaceholder ==
    (/\ PatchCall(last)
     /\ include_statements # <<>>
     /\ placeholder_search(last.lines[1]).found)
    => LET t == last.lines[1]
           init_start == placeholder_search(t).start - 1
       IN  /\ InsertPos(t, init_start) <= init_start
           /\ last.wrote
           /\ \E a \in 0..init_start :
                 Lookup(fs, last.path).content =
                    placeholder_sub(InsertAt(t, a, include_statements), registration_code)

=============================================================================
